---- MODULE Spec2Model ----
(***************************************************************************)
(* Double pendulum phase-space portrait.                                   *)
(*                                                                         *)
(*   - compute.wgsl (batch evaluator): one invocation per grid cell,       *)
(*     RK4-integrates the cell from t = 0 to params.time and stores the    *)
(*     encoded final state in an rgba8unorm texture.                       *)
(*   - main.ts, CPU preview driver: a click or the reset button selects a  *)
(*     pixel and starts a requestAnimationFrame loop that advances one     *)
(*     trajectory by one RK4 step per frame.                               *)
(*   - main.ts, animated driver: every frame writes the elapsed time into  *)
(*     the uniform buffer, dispatches the batch evaluator, renders, and    *)
(*     reads the selected pixel back.                                      *)
(*                                                                         *)
(* f32 / f64 values are fixed-point integers with SCALE units per 1.0, so  *)
(* 1.0 is 1000, dt = 0.01 s is 10 and times are milliseconds.  Products    *)
(* and quotients are rescaled and rounded down after every operation, in   *)
(* the order the source evaluates them.                                    *)
(***************************************************************************)
EXTENDS Integers, Sequences, FiniteSets, TLC

----------------------------------------------------------------------------
(* Fixed-point arithmetic *)

SCALE == 1000

FixMul(a, b) == (a * b) \div SCALE

FixDiv(a, b) == (a * SCALE) \div b

HALF == SCALE \div 2

Clamp(v, lo, hi) == IF v < lo THEN lo ELSE IF v > hi THEN hi ELSE v

\* u32(f): truncation toward zero of a non-negative quotient a / b;
\* negative values convert to 0
U32Div(a, b) ==
    IF a < 0 /\ b < 0 THEN (0 - a) \div (0 - b)
    ELSE IF a < 0 \/ b < 0 THEN 0
    ELSE a \div b

CeilDiv(a, b) == (a + b - 1) \div b

----------------------------------------------------------------------------
(* Program constants *)

CANVAS_SIZE == 3

WORKGROUP_SIZE == 16

DT == 10

M1 == 1000

M2 == 1000

L1 == 1000

L2 == 1000

G == 9810

PI == 3142

OMEGA_RANGE == 10000

Cells == (0 .. CANVAS_SIZE - 1) \X (0 .. CANVAS_SIZE - 1)

\* the uniform buffer of compute.wgsl (struct Params, without its time
\* field, which is the variable time)
VARIABLE params

\* the values updateUniforms and setupResources write into the buffer
UniformParams ==
    [width |-> CANVAS_SIZE, height |-> CANVAS_SIZE, dt |-> DT,
     m1 |-> M1, m2 |-> M2, l1 |-> L1, l2 |-> L2, g |-> G]

----------------------------------------------------------------------------
(* sin / cos on fixed-point radians: reduction to [0, 2 PI), then the      *)
(* rational approximation 16 r (PI - r) / (5 PI^2 - 4 r (PI - r)) on       *)
(* [0, PI], odd continuation on (PI, 2 PI).                                *)

SinHalfTurn(r) ==
    LET p == (r * (PI - r)) \div 64
    IN  (16 * p * SCALE) \div ((5 * PI * PI) \div 64 - 4 * p)

Sin(a) ==
    LET r == a % (2 * PI)
    IN  IF r <= PI THEN SinHalfTurn(r) ELSE 0 - SinHalfTurn(r - PI)

Cos(a) == Sin(a + PI \div 2)

----------------------------------------------------------------------------
(* compute.wgsl: derivative model and RK4 step.  A vec4f is a 4-tuple      *)
(* <<theta1, theta2, omega1, omega2>>.                                     *)

\* variant: the whole mass is multiplied by cos^2
den1FullMass(m1, m2, l1, delta) ==
    FixMul(m1 + m2, l1)
    - FixMul(FixMul(FixMul(m1 + m2, l1), Cos(delta)), Cos(delta))

\* let den1 = (m1 + m2) * l1 - m2 * l1 * cos(delta) * cos(delta)
den1(m1, m2, l1, delta) ==
    FixMul(m1 + m2, l1) - FixMul(FixMul(FixMul(m2, l1), Cos(delta)), Cos(delta))

\* let den2 = (l2 / l1) * den1
den2(l1, l2, d1) == FixMul(FixDiv(l2, l1), d1)

derivatives(theta1, theta2, omega1, omega2) ==
    LET m1 == params.m1
        m2 == params.m2
        l1 == params.l1
        l2 == params.l2
        g  == params.g
        delta == theta2 - theta1
        d1 == den1(m1, m2, l1, delta)
        d2 == den2(l1, l2, d1)
        dtheta1 == omega1
        dtheta2 == omega2
        domega1 ==
            FixDiv(  FixMul(FixMul(FixMul(FixMul(FixMul(m2, l1), omega1), omega1),
                                   Sin(delta)), Cos(delta))
                   + FixMul(FixMul(FixMul(m2, g), Sin(theta2)), Cos(delta))
                   + FixMul(FixMul(FixMul(FixMul(m2, l2), omega2), omega2), Sin(delta))
                   - FixMul(FixMul(m1 + m2, g), Sin(theta1)),
                   d1)
        domega2 ==
            FixDiv(  FixMul(FixMul(FixMul(FixMul(FixMul(0 - m2, l2), omega2), omega2),
                                   Sin(delta)), Cos(delta))
                   + FixMul(FixMul(FixMul(m1 + m2, g), Sin(theta1)), Cos(delta))
                   - FixMul(FixMul(FixMul(FixMul(m1 + m2, l1), omega1), omega1),
                            Sin(delta))
                   - FixMul(FixMul(m1 + m2, g), Sin(theta2)),
                   d2)
    IN  <<dtheta1, dtheta2, domega1, domega2>>

\* derivatives at the state advanced by h along the slope k
\* (the argument lists of k2, k3 and k4 in rk4Step)
derivativesAt(theta1, theta2, omega1, omega2, h, k) ==
    derivatives(theta1 + FixMul(h, k[1]),
                theta2 + FixMul(h, k[2]),
                omega1 + FixMul(h, k[3]),
                omega2 + FixMul(h, k[4]))

\* the weighted slope and the update that end rk4Step
rk4Update(theta1, theta2, omega1, omega2, dt, k1, k2, k3, k4) ==
    LET dtheta1 == (k1[1] + 2 * k2[1] + 2 * k3[1] + k4[1]) \div 6
        dtheta2 == (k1[2] + 2 * k2[2] + 2 * k3[2] + k4[2]) \div 6
        domega1 == (k1[3] + 2 * k2[3] + 2 * k3[3] + k4[3]) \div 6
        domega2 == (k1[4] + 2 * k2[4] + 2 * k3[4] + k4[4]) \div 6
    IN  <<theta1 + FixMul(dt, dtheta1),
          theta2 + FixMul(dt, dtheta2),
          omega1 + FixMul(dt, domega1),
          omega2 + FixMul(dt, domega2)>>

rk4Step(theta1, theta2, omega1, omega2, dt) ==
    LET k1 == derivatives(theta1, theta2, omega1, omega2)
        k2 == derivativesAt(theta1, theta2, omega1, omega2, FixMul(HALF, dt), k1)
        k3 == derivativesAt(theta1, theta2, omega1, omega2, FixMul(HALF, dt), k2)
        k4 == derivativesAt(theta1, theta2, omega1, omega2, dt, k3)
    IN  rk4Update(theta1, theta2, omega1, omega2, dt, k1, k2, k3, k4)

----------------------------------------------------------------------------
(* compute.wgsl: the pieces of main() *)

\* variant: the last column is taken for outside the grid
InGridInner(x, y) == ~(x + 1 >= params.width \/ y >= params.height)

\* the bounds check of the invocation
InGrid(x, y) == ~(x >= params.width \/ y >= params.height)

\* variant: the coordinate is divided by size - 1, so the last cell is +PI
InitAngleInclusive(c, size) ==
    FixMul(FixDiv(c * SCALE, (size - 1) * SCALE) * 2 - SCALE, PI)

\* pixel coordinate -> initial angle
InitAngle(c, size) == FixMul(FixDiv(c * SCALE, size * SCALE) * 2 - SCALE, PI)

InitialState(x, y) ==
    <<InitAngle(x, params.width), InitAngle(y, params.height), 0, 0>>

\* variant: the step count rounded up
TotalStepsCeil(t, dt) == CeilDiv(t, dt)

TotalSteps(t, dt) == U32Div(t, dt)

\* variant: one iteration too many
LoopCondInclusive(k, total) == k <= total

LoopCond(k, total) == k < total

\* variant: the shift by PI inside the floor is missing
NormalizeAngleNoShift(theta) == theta - (theta \div (2 * PI)) * 2 * PI

\* theta - floor((theta + PI) / (2 PI)) * 2 * PI
NormalizeAngle(theta) == theta - ((theta + PI) \div (2 * PI)) * 2 * PI

\* variant: the angles are wrapped after every step
LoopBodyNormalizing(theta1, theta2, omega1, omega2, dt) ==
    LET state == rk4Step(theta1, theta2, omega1, omega2, dt)
    IN  <<NormalizeAngle(state[1]), NormalizeAngle(state[2]), state[3], state[4]>>

LoopBody(theta1, theta2, omega1, omega2, dt) ==
    rk4Step(theta1, theta2, omega1, omega2, dt)

NormTheta(theta) == FixMul(FixDiv(theta, PI) + SCALE, HALF)

\* variant: the normalized velocity is wrapped into [0, 1) instead of clamped
NormOmegaWrapped(omega) == FixMul(FixDiv(omega, OMEGA_RANGE) + SCALE, HALF) % SCALE

NormOmega(omega) ==
    Clamp(FixMul(FixDiv(omega, OMEGA_RANGE) + SCALE, HALF), 0, SCALE)

\* variant: the channel is truncated to a byte instead of rounded
Unorm8Truncating(v) == (Clamp(v, 0, SCALE) * 255) \div SCALE

\* a channel of an rgba8unorm texel: clamp to [0, 1], scale to 255, round
Unorm8(v) == (Clamp(v, 0, SCALE) * 255 + HALF) \div SCALE

\* the texel stored for the normalized angles and the velocities
Texel(theta1, theta2, omega1, omega2) ==
    <<Unorm8(NormTheta(theta1)),
      Unorm8(NormTheta(theta2)),
      Unorm8(NormOmega(omega1)),
      Unorm8(NormOmega(omega2))>>

\* the integration loop of main(), from iteration k to the end
RECURSIVE Integrate(_, _, _)
Integrate(state, k, total) ==
    IF LoopCond(k, total)
    THEN Integrate(LoopBody(state[1], state[2], state[3], state[4], params.dt),
                   k + 1, total)
    ELSE state

\* the state of cell (x, y) when its loop is left, for params.time = t
BatchState(x, y, t) == Integrate(InitialState(x, y), 0, TotalSteps(t, params.dt))

\* the texel the invocation for cell (x, y) stores, for params.time = t
ShaderTexel(x, y, t) ==
    LET state == BatchState(x, y, t)
    IN  Texel(NormalizeAngle(state[1]), NormalizeAngle(state[2]), state[3], state[4])

----------------------------------------------------------------------------
(* The per-pendulum incremental shader (compute.wgsl with src / dst state  *)
(* buffers).  Here params holds a SimParams record.                        *)

\* let eps = 1e-6, below the resolution 1 / SCALE: a denominator, a multiple
\* of 1 / SCALE, is below eps exactly when it is not positive
BelowEps(d) == d <= 0

\* a numerator divided by eps: num * 1e6, kept as it is
OverEps(num) == [overEps |-> num]

\* num / max(d, eps)
GuardedQuotient(num, d) == IF BelowEps(d) THEN OverEps(num) ELSE FixDiv(num, d)

\* l * (2.0 * m1 + m2 - m2 * cos(2.0 * delta)), for l = l1 and l = l2
denom(l, m1, m2, delta) ==
    FixMul(l, 2 * m1 + m2 - FixMul(m2, Cos(2 * delta)))

deriv(s) ==
    LET theta1 == s[1]
        theta2 == s[2]
        omega1 == s[3]
        omega2 == s[4]
        delta == theta2 - theta1
        m1 == params.m1
        m2 == params.m2
        l1 == params.l1
        l2 == params.l2
        g  == params.g
        denom1 == denom(l1, m1, m2, delta)
        denom2 == denom(l2, m1, m2, delta)
        domega1 ==
            GuardedQuotient(
                  FixMul(FixMul(0 - g, 2 * m1 + m2), Sin(theta1))
                - FixMul(FixMul(m2, g), Sin(theta1 - 2 * theta2))
                - FixMul(FixMul(2 * Sin(delta), m2),
                           FixMul(FixMul(omega2, omega2), l2)
                         + FixMul(FixMul(FixMul(omega1, omega1), l1), Cos(delta))),
                denom1)
        domega2 ==
            GuardedQuotient(
                FixMul(2 * Sin(delta),
                         FixMul(FixMul(FixMul(omega1, omega1), l1), m1 + m2)
                       + FixMul(FixMul(g, m1 + m2), Cos(theta1))
                       + FixMul(FixMul(FixMul(FixMul(omega2, omega2), l2), m2),
                                Cos(delta))),
                denom2)
    IN  <<omega1, omega2, domega1, domega2>>

\* s + h * k on vec4<f32>
AddScaled(s, h, k) ==
    <<s[1] + FixMul(h, k[1]), s[2] + FixMul(h, k[2]),
      s[3] + FixMul(h, k[3]), s[4] + FixMul(h, k[4])>>

\* k1 + 2.0 * k2 + 2.0 * k3 + k4
WeightedSum(k1, k2, k3, k4) ==
    <<k1[1] + 2 * k2[1] + 2 * k3[1] + k4[1], k1[2] + 2 * k2[2] + 2 * k3[2] + k4[2],
      k1[3] + 2 * k2[3] + 2 * k3[3] + k4[3], k1[4] + 2 * k2[4] + 2 * k3[4] + k4[4]>>

\* the slopes k2, k3, k4 of main, each from the one before
NextSlope(s, h, k) == deriv(AddScaled(s, h, k))

\* main: the RK4 block, from s to newS
NewState(s, dt) ==
    LET k1 == deriv(s)
        k2 == NextSlope(s, FixMul(HALF, dt), k1)
        k3 == NextSlope(s, FixMul(HALF, dt), k2)
        k4 == NextSlope(s, dt, k3)
    IN  AddScaled(s, FixDiv(dt, 6 * SCALE), WeightedSum(k1, k2, k3, k4))

\* floor(sqrt(v)) by bisection: lo * lo <= v < hi * hi
RECURSIVE SqrtBetween(_, _, _)
SqrtBetween(v, lo, hi) ==
    IF hi - lo <= 1 THEN lo
    ELSE LET mid == (lo + hi) \div 2
         IN  IF mid * mid <= v THEN SqrtBetween(v, mid, hi)
                               ELSE SqrtBetween(v, lo, mid)

\* length(vec2<f32>(z, w))
Length(z, w) == SqrtBetween(z * z + w * w, 0, 46340)

hsv_to_rgb(h, sat, v) ==
    LET idx6 == (h * 6) \div SCALE
        f == h * 6 - idx6 * SCALE
        p == FixMul(v, SCALE - sat)
        q == FixMul(v, SCALE - FixMul(f, sat))
        t == FixMul(v, SCALE - FixMul(SCALE - f, sat))
        mod6 == idx6 % 6
    IN  IF mod6 = 0 THEN <<v, t, p>>
        ELSE IF mod6 = 1 THEN <<q, v, p>>
        ELSE IF mod6 = 2 THEN <<p, v, t>>
        ELSE IF mod6 = 3 THEN <<p, q, v>>
        ELSE IF mod6 = 4 THEN <<t, p, v>>
        ELSE <<v, p, q>>

\* main: the color stored for newS, as the bytes of the rgba8unorm texel
ColorTexel(newS) ==
    LET ang == FixMul(HALF, newS[1] + newS[2])
        hue == FixMul(ang, 159) % SCALE
        speed == Length(newS[3], newS[4])
        value == Clamp(FixMul(speed, 60), 50, SCALE)
        rgb == hsv_to_rgb(hue, 800, value)
    IN  <<Unorm8(rgb[1]), Unorm8(rgb[2]), Unorm8(rgb[3]), Unorm8(SCALE)>>

\* variant: the pixel is addressed column by column
PixelOfIndexTransposed(idx, texWidth) == <<idx \div texWidth, idx % texWidth>>

\* main: index -> pixel coords
PixelOfIndex(idx, texWidth) == <<idx % texWidth, idx \div texWidth>>

----------------------------------------------------------------------------
(* main.ts *)

\* runCompute: one dispatch covers every cell of the grid; the commands of
\* the queue run in submission order, so the texture after the dispatch is
\* the one every in-grid invocation has written for the uniform time t
runCompute(t) == [c \in Cells |-> ShaderTexel(c[1], c[2], t)]

\* getPixelState: one channel byte back to a number in [0, 1]
ByteToUnit(byte) == FixDiv(byte * SCALE, 255 * SCALE)

\* getPixelState: the state decoded from the four bytes of a pixel
DecodePixel(bytes) ==
    [theta1 |-> FixMul(ByteToUnit(bytes[1]) * 2 - SCALE, PI),
     theta2 |-> FixMul(ByteToUnit(bytes[2]) * 2 - SCALE, PI),
     omega1 |-> FixMul(ByteToUnit(bytes[3]) * 2 - SCALE, OMEGA_RANGE),
     omega2 |-> FixMul(ByteToUnit(bytes[4]) * 2 - SCALE, OMEGA_RANGE)]

\* updatePreview: the initial angles of the selected pixel
PreviewInitialState(pixel) ==
    [theta1 |-> FixMul(FixDiv(pixel[1] * SCALE, CANVAS_SIZE * SCALE) * 2 - SCALE, PI),
     theta2 |-> FixMul(FixDiv(pixel[2] * SCALE, CANVAS_SIZE * SCALE) * 2 - SCALE, PI),
     omega1 |-> 0,
     omega2 |-> 0]

\* const den1 = (M1 + M2) * L1 - M2 * L1 * Math.cos(delta) * Math.cos(delta)
previewDen1(delta) ==
    FixMul(M1 + M2, L1) - FixMul(FixMul(FixMul(M2, L1), Cos(delta)), Cos(delta))

\* const den2 = (L2 / L1) * den1
previewDen2(d1) == FixMul(FixDiv(L2, L1), d1)

\* the method derivatives(state) of the CPU preview
previewDerivatives(state) ==
    LET delta == state.theta2 - state.theta1
        d1 == previewDen1(delta)
        d2 == previewDen2(d1)
        dtheta1 == state.omega1
        dtheta2 == state.omega2
        domega1 ==
            FixDiv(  FixMul(FixMul(FixMul(FixMul(FixMul(M2, L1), state.omega1),
                                          state.omega1), Sin(delta)), Cos(delta))
                   + FixMul(FixMul(FixMul(M2, G), Sin(state.theta2)), Cos(delta))
                   + FixMul(FixMul(FixMul(FixMul(M2, L2), state.omega2), state.omega2),
                            Sin(delta))
                   - FixMul(FixMul(M1 + M2, G), Sin(state.theta1)),
                   d1)
        domega2 ==
            FixDiv(  FixMul(FixMul(FixMul(FixMul(FixMul(0 - M2, L2), state.omega2),
                                          state.omega2), Sin(delta)), Cos(delta))
                   + FixMul(FixMul(FixMul(M1 + M2, G), Sin(state.theta1)), Cos(delta))
                   - FixMul(FixMul(FixMul(FixMul(M1 + M2, L1), state.omega1),
                                   state.omega1), Sin(delta))
                   - FixMul(FixMul(M1 + M2, G), Sin(state.theta2)),
                   d2)
    IN  [dtheta1 |-> dtheta1, dtheta2 |-> dtheta2,
         domega1 |-> domega1, domega2 |-> domega2]

\* animate: the argument of the derivatives call for k2, k3 and k4
previewStateAt(state, h, k) ==
    [theta1 |-> state.theta1 + FixMul(h, k.dtheta1),
     theta2 |-> state.theta2 + FixMul(h, k.dtheta2),
     omega1 |-> state.omega1 + FixMul(h, k.domega1),
     omega2 |-> state.omega2 + FixMul(h, k.domega2)]

\* animate: state.x += DT * (k1 + 2 * k2 + 2 * k3 + k4) / 6
previewUpdate(state, k1, k2, k3, k4) ==
    [theta1 |-> state.theta1
          + FixMul(DT, k1.dtheta1 + 2 * k2.dtheta1 + 2 * k3.dtheta1 + k4.dtheta1) \div 6,
     theta2 |-> state.theta2
          + FixMul(DT, k1.dtheta2 + 2 * k2.dtheta2 + 2 * k3.dtheta2 + k4.dtheta2) \div 6,
     omega1 |-> state.omega1
          + FixMul(DT, k1.domega1 + 2 * k2.domega1 + 2 * k3.domega1 + k4.domega1) \div 6,
     omega2 |-> state.omega2
          + FixMul(DT, k1.domega2 + 2 * k2.domega2 + 2 * k3.domega2 + k4.domega2) \div 6]

\* variant: k4 is evaluated at the half step, like k2 and k3
previewRk4HalfK4(state) ==
    LET k1 == previewDerivatives(state)
        k2 == previewDerivatives(previewStateAt(state, FixMul(HALF, DT), k1))
        k3 == previewDerivatives(previewStateAt(state, FixMul(HALF, DT), k2))
        k4 == previewDerivatives(previewStateAt(state, FixMul(HALF, DT), k3))
    IN  previewUpdate(state, k1, k2, k3, k4)

\* animate: the RK4 step of one preview frame
previewRk4(state) ==
    LET k1 == previewDerivatives(state)
        k2 == previewDerivatives(previewStateAt(state, FixMul(HALF, DT), k1))
        k3 == previewDerivatives(previewStateAt(state, FixMul(HALF, DT), k2))
        k4 == previewDerivatives(previewStateAt(state, DT, k3))
    IN  previewUpdate(state, k1, k2, k3, k4)

----------------------------------------------------------------------------
(* Bounds of the model *)

\* simulated times up to ShortTime ms are all tried, plus one long run
ShortTime == 35

LongTime == 800

TimeInputs == (0 .. ShortTime) \cup {LongTime}

\* invocation ids of one dispatch: ceil(CANVAS_SIZE / 16) workgroups of 16
DispatchCount == CeilDiv(CANVAS_SIZE, WORKGROUP_SIZE)

Invocations ==
    (0 .. DispatchCount * WORKGROUP_SIZE - 1) \X (0 .. DispatchCount * WORKGROUP_SIZE - 1)

\* the clock may advance by the frame time of a fast or of a slow display,
\* up to MaxNow ms
ShortFrame == 7

LongFrame == 17

MaxNow == 24

FrameIntervals == {ShortFrame, LongFrame}

\* frames one preview loop may run, and clicks / resets in one run
MaxTicks == 2

MaxEvents == 2

\* the pixels a click or Math.random may select: a cell of the left edge whose
\* first angle leaves [-PI, PI) at once, and a cell of the top edge
InputPixels == {<<0, CANVAS_SIZE - 1>>, <<1, 0>>}

NoTexel == <<>>

ZeroTexel == <<0, 0, 0, 0>>

NoId == 0

NoDraw == <<>>

EmptyTexture == [c \in Cells |-> NoTexel]

NoStores == [c \in Cells |-> 0]

----------------------------------------------------------------------------
(* getPixelState: the read-back of one pixel through a staging buffer *)

bytesPerPixel == 4

bytesPerRow == CANVAS_SIZE * bytesPerPixel

bufferSize == bytesPerRow * CANVAS_SIZE

\* a texel no invocation has stored to reads as the zeros the texture was
\* created with
TexelBytes(texel) == IF texel = NoTexel THEN ZeroTexel ELSE texel

\* copyTextureToBuffer: the rows of the texture one after the other,
\* bytesPerRow bytes apart, four channel bytes per pixel (byte offset o is
\* element o + 1 of the sequence)
copyTextureToBuffer(tex) ==
    [k \in 1 .. bufferSize |->
        TexelBytes(tex[<<((k - 1) % bytesPerRow) \div bytesPerPixel,
                         (k - 1) \div bytesPerRow>>])[((k - 1) % bytesPerPixel) + 1]]

\* variant: the reader takes x for the row
pixelStartTransposed(x, y) == x * bytesPerRow + y * bytesPerPixel

\* getPixelState: rowStart + x * bytesPerPixel
pixelStart(x, y) == y * bytesPerRow + x * bytesPerPixel

\* an element of a Uint8Array read at an index outside the array
Undefined == "undefined"

\* bytes[offset] of the mapped Uint8Array
ByteAt(bytes, offset) ==
    IF offset + 1 \in DOMAIN bytes THEN bytes[offset + 1] ELSE Undefined

\* getPixelState: the four bytes the reader takes out of the mapped buffer
PixelBytes(bytes, start) ==
    <<ByteAt(bytes, start), ByteAt(bytes, start + 1), ByteAt(bytes, start + 2),
      ByteAt(bytes, start + 3)>>

\* getPixelState(x, y) up to its await: the copy is submitted behind every
\* earlier command of the queue, so the bytes the reader will see are the
\* ones of the texture tex of that moment
getPixelState(tex, x, y) ==
    [x |-> x, y |-> y, pixelStart |-> pixelStart(x, y),
     bytes |-> PixelBytes(copyTextureToBuffer(tex), pixelStart(x, y))]

----------------------------------------------------------------------------
(* State *)

VARIABLES
    \* one invocation of the compute shader
    gid,            \* global_invocation_id.xy
    time,           \* params.time, the uniform the invocation reads
    pc,             \* "start", "loop", "done", "returned"
    theta1, theta2, omega1, omega2,
    i, totalSteps,
    calls,          \* history: rk4Step applications of this invocation
    exitState,      \* history: the state when the loop was left
    outputTexture,  \* cell -> stored texel, NoTexel while unwritten
    \* one dispatch of a compute pipeline
    pipeline,       \* "batch" (compute.wgsl) or "pendulums" (src / dst shader)
    ran,            \* the invocations of the dispatch that have finished
    src, dst,       \* the state buffers of the per-pendulum shader
    stores,         \* history: the texture stores of the dispatch, per cell
    evaluated,      \* history: single derivative evaluations, by implementation
    \* main.ts
    now,            \* performance.now(), ms
    startTime,      \* startAnimation: the closure's startTime
    selectedPixel,
    simulationTime,
    animationId,
    rafQueue,       \* the callbacks requestAnimationFrame has scheduled
    pendingReads,   \* getPixelState calls awaiting mapAsync, oldest first
    nextId,         \* the next handle requestAnimationFrame returns
    drawn,          \* the state last passed to drawPendulum
    resetAt,        \* history: the clock at the last reset, -1 before any
    events          \* history: clicks and resets so far

dispatchVars == <<pipeline, ran, src, dst, stores, evaluated>>

shaderVars ==
    <<params, gid, time, pc, theta1, theta2, omega1, omega2, i, totalSteps, calls,
      exitState, outputTexture, dispatchVars>>

invocationVars ==
    <<params, gid, pc, theta1, theta2, omega1, omega2, i, totalSteps, calls,
      exitState, dispatchVars>>

jsVars ==
    <<now, startTime, selectedPixel, simulationTime, animationId, rafQueue,
      pendingReads, nextId, drawn, resetAt, events>>

vars == <<shaderVars, jsVars>>

\* main.ts before init()
JsIdle ==
    /\ now = 0
    /\ startTime = 0
    /\ selectedPixel = <<>>
    /\ simulationTime = 0
    /\ animationId = NoId
    /\ rafQueue = {}
    /\ pendingReads = <<>>
    /\ nextId = 1
    /\ drawn = NoDraw
    /\ resetAt = 0 - 1
    /\ events = 0

\* the batch pipeline is bound and no dispatch is being followed
DispatchIdle ==
    /\ pipeline = "batch"
    /\ ran = {}
    /\ src = <<>>
    /\ dst = <<>>
    /\ stores = NoStores
    /\ evaluated = <<>>

\* no invocation of the shader is being followed
InvocationIdle ==
    /\ DispatchIdle
    /\ params = UniformParams
    /\ gid = <<0, 0>>
    /\ pc = "start"
    /\ theta1 = 0 /\ theta2 = 0 /\ omega1 = 0 /\ omega2 = 0
    /\ i = 0 /\ totalSteps = 0
    /\ calls = 0
    /\ exitState = <<>>

----------------------------------------------------------------------------
(* One invocation of compute.wgsl main(), step by step *)

ShaderInit ==
    /\ DispatchIdle
    /\ params = UniformParams
    /\ gid \in Invocations
    /\ time \in TimeInputs
    /\ pc = "start"
    /\ theta1 = 0 /\ theta2 = 0 /\ omega1 = 0 /\ omega2 = 0
    /\ i = 0 /\ totalSteps = 0
    /\ calls = 0
    /\ exitState = <<>>
    /\ outputTexture = EmptyTexture
    /\ JsIdle

\* out-of-grid invocation: the early return
Return ==
    /\ pc = "start"
    /\ ~InGrid(gid[1], gid[2])
    /\ pc' = "returned"
    /\ UNCHANGED <<params, gid, time, theta1, theta2, omega1, omega2, i,
                   totalSteps, calls, exitState, outputTexture, dispatchVars>>
    /\ UNCHANGED jsVars

\* initial condition and step count, up to the loop head
Enter ==
    /\ pc = "start"
    /\ InGrid(gid[1], gid[2])
    /\ theta1' = InitialState(gid[1], gid[2])[1]
    /\ theta2' = InitialState(gid[1], gid[2])[2]
    /\ omega1' = InitialState(gid[1], gid[2])[3]
    /\ omega2' = InitialState(gid[1], gid[2])[4]
    /\ totalSteps' = TotalSteps(time, params.dt)
    /\ i' = 0
    /\ pc' = "loop"
    /\ UNCHANGED <<params, gid, time, calls, exitState, outputTexture, dispatchVars>>
    /\ UNCHANGED jsVars

\* one iteration of the integration loop
Rk4Iter ==
    /\ pc = "loop"
    /\ LoopCond(i, totalSteps)
    /\ LET state == LoopBody(theta1, theta2, omega1, omega2, params.dt)
       IN  /\ theta1' = state[1]
           /\ theta2' = state[2]
           /\ omega1' = state[3]
           /\ omega2' = state[4]
    /\ i' = i + 1
    /\ calls' = calls + 1
    /\ UNCHANGED <<params, gid, time, pc, totalSteps, exitState, outputTexture,
                   dispatchVars>>
    /\ UNCHANGED jsVars

\* loop exit: normalize the angles, encode, textureStore
Finish ==
    /\ pc = "loop"
    /\ ~LoopCond(i, totalSteps)
    /\ exitState' = <<theta1, theta2, omega1, omega2>>
    /\ theta1' = NormalizeAngle(theta1)
    /\ theta2' = NormalizeAngle(theta2)
    /\ outputTexture' =
          [outputTexture EXCEPT ![gid] = Texel(theta1', theta2', omega1, omega2)]
    /\ pc' = "done"
    /\ UNCHANGED <<params, gid, time, omega1, omega2, i, totalSteps, calls,
                   dispatchVars>>
    /\ UNCHANGED jsVars

Init == ShaderInit

Next == Return \/ Enter \/ Rk4Iter \/ Finish

Spec == Init /\ [][Next]_vars

----------------------------------------------------------------------------
(* The same invocation under other contents of the uniform buffer *)

\* a configuration the contract calls valid
ValidConfig(p) ==
    /\ p.width > 0 /\ p.height > 0
    /\ p.dt > 0
    /\ p.m1 > 0 /\ p.m2 > 0
    /\ p.l1 > 0 /\ p.l2 > 0

\* the buffer contents tried: the program's own, a zero width, a zero height,
\* a negative dt, a negative mass and negative lengths.  (A zero mass, length
\* or dt makes a quotient x / 0, whose f32 value WGSL leaves indeterminate;
\* those are not followed.)
ConfigInputs ==
    {UniformParams,
     [UniformParams EXCEPT !.width = 0],
     [UniformParams EXCEPT !.height = 0],
     [UniformParams EXCEPT !.dt = 0 - DT],
     [UniformParams EXCEPT !.m2 = 0 - M2 \div 2],
     [UniformParams EXCEPT !.l1 = 0 - L1],
     [UniformParams EXCEPT !.l2 = 0 - L2]}

\* simulated times of up to MaxConfigSteps steps
MaxConfigSteps == 2

ConfigTimes == {k * DT : k \in 0 .. MaxConfigSteps}

ConfigInit ==
    /\ DispatchIdle
    /\ params \in ConfigInputs
    /\ gid \in Invocations
    /\ time \in ConfigTimes
    /\ pc = "start"
    /\ theta1 = 0 /\ theta2 = 0 /\ omega1 = 0 /\ omega2 = 0
    /\ i = 0 /\ totalSteps = 0
    /\ calls = 0
    /\ exitState = <<>>
    /\ outputTexture = EmptyTexture
    /\ JsIdle

SpecConfig == ConfigInit /\ [][Next]_vars

----------------------------------------------------------------------------
(* One evaluation of each derivative implementation at the same state *)

\* masses and lengths tried; the first mass may also be 0, the configuration
\* in which the denominators reach zero
MassInputs == {SCALE \div 4, SCALE, 2 * SCALE}

LengthInputs == {SCALE \div 4, SCALE, 2 * SCALE}

AngleInputs == {0 - PI, 0 - PI \div 2, 0, PI \div 4, PI \div 2, PI - 1}

Implementations == {"batch", "cpu", "pendulums"}

\* the result of x / 0 in f32
NonFinite == <<>>

DerivInit ==
    /\ pipeline = "batch"
    /\ ran = {}
    /\ src = <<>>
    /\ dst = <<>>
    /\ stores = NoStores
    /\ evaluated = <<>>
    /\ \E m1 \in MassInputs \cup {0}, m2 \in MassInputs, l1, l2 \in LengthInputs :
          params = [UniformParams EXCEPT !.m1 = m1, !.m2 = m2, !.l1 = l1, !.l2 = l2]
    /\ gid = <<0, 0>>
    /\ time = 0
    /\ pc = "start"
    /\ theta1 \in AngleInputs
    /\ theta2 \in AngleInputs
    /\ omega1 = 2 * SCALE
    /\ omega2 = 0 - SCALE
    /\ i = 0 /\ totalSteps = 0
    /\ calls = 0
    /\ exitState = <<>>
    /\ outputTexture = EmptyTexture
    /\ JsIdle

\* evaluated, with the evaluation of one more implementation
Recorded(impl, evaluation) ==
    [k \in DOMAIN evaluated \cup {impl} |->
        IF k = impl THEN evaluation ELSE evaluated[k]]

\* derivatives() of compute.wgsl: both quotients are unguarded
EvalBatch ==
    /\ "batch" \notin DOMAIN evaluated
    /\ LET d1 == den1(params.m1, params.m2, params.l1, theta2 - theta1)
           d2 == den2(params.l1, params.l2, d1)
       IN  evaluated' = Recorded("batch",
              [den |-> <<d1, d2>>,
               nearZero |-> d1 = 0 \/ d2 = 0,
               floored |-> FALSE,
               value |-> IF d1 = 0 \/ d2 = 0 THEN NonFinite
                         ELSE derivatives(theta1, theta2, omega1, omega2)])
    /\ UNCHANGED <<params, gid, time, pc, theta1, theta2, omega1, omega2, i,
                   totalSteps, calls, exitState, outputTexture, pipeline, ran,
                   src, dst, stores>>
    /\ UNCHANGED jsVars

\* derivatives() of the CPU preview: unguarded, on the constants of main.ts
EvalPreview ==
    /\ "cpu" \notin DOMAIN evaluated
    /\ LET d1 == previewDen1(theta2 - theta1)
           d2 == previewDen2(d1)
       IN  evaluated' = Recorded("cpu",
              [den |-> <<d1, d2>>,
               nearZero |-> d1 = 0 \/ d2 = 0,
               floored |-> FALSE,
               value |-> IF d1 = 0 \/ d2 = 0 THEN NonFinite
                         ELSE previewDerivatives(
                                 [theta1 |-> theta1, theta2 |-> theta2,
                                  omega1 |-> omega1, omega2 |-> omega2])])
    /\ UNCHANGED <<params, gid, time, pc, theta1, theta2, omega1, omega2, i,
                   totalSteps, calls, exitState, outputTexture, pipeline, ran,
                   src, dst, stores>>
    /\ UNCHANGED jsVars

\* deriv() of the per-pendulum shader: both quotients divide by max(denom, eps)
EvalPendulum ==
    /\ "pendulums" \notin DOMAIN evaluated
    /\ LET denom1 == denom(params.l1, params.m1, params.m2, theta2 - theta1)
           denom2 == denom(params.l2, params.m1, params.m2, theta2 - theta1)
       IN  evaluated' = Recorded("pendulums",
              [den |-> <<denom1, denom2>>,
               nearZero |-> denom1 = 0 \/ denom2 = 0,
               floored |-> BelowEps(denom1) \/ BelowEps(denom2),
               value |-> deriv(<<theta1, theta2, omega1, omega2>>)])
    /\ UNCHANGED <<params, gid, time, pc, theta1, theta2, omega1, omega2, i,
                   totalSteps, calls, exitState, outputTexture, pipeline, ran,
                   src, dst, stores>>
    /\ UNCHANGED jsVars

DerivNext == EvalBatch \/ EvalPreview \/ EvalPendulum

SpecDeriv == DerivInit /\ [][DerivNext]_vars

----------------------------------------------------------------------------
(* src/main.ts: the CPU preview driver *)

\* the state when init() has returned: selectRandomPixel has started a
\* read-back of the still empty texture, then the one dispatch has run
\* (the uniform's time field is the zero padding)
PreviewInit ==
    /\ InvocationIdle
    /\ time = 0
    /\ outputTexture = runCompute(0)
    /\ now = 0
    /\ startTime = 0
    /\ selectedPixel \in InputPixels
    /\ simulationTime = 0
    /\ animationId = NoId
    /\ rafQueue = {}
    /\ pendingReads = <<getPixelState(EmptyTexture, selectedPixel[1],
                                       selectedPixel[2])>>
    /\ nextId = 1
    /\ drawn = NoDraw
    /\ resetAt = 0 - 1
    /\ events = 0

\* performance.now() moves on by one of the intervals, up to maxNow
ClockAdvanceBy(intervals, maxNow) ==
    /\ \E d \in intervals :
          /\ now + d <= maxNow
          /\ now' = now + d
    /\ UNCHANGED <<shaderVars, startTime, selectedPixel, simulationTime,
                   animationId, rafQueue, pendingReads, nextId, drawn, resetAt,
                   events>>

ClockAdvance == ClockAdvanceBy(FrameIntervals, MaxNow)

\* updatePreview up to its await, with this.selectedPixel already set to p
UpdatePreviewSync(p) ==
    /\ rafQueue' = IF animationId # NoId
                   THEN {cb \in rafQueue : cb.id # animationId}
                   ELSE rafQueue
    /\ simulationTime' = 0
    /\ pendingReads' = Append(pendingReads,
                              getPixelState(outputTexture, p[1], p[2]))

\* the canvas click handler
PreviewClick ==
    /\ events < MaxEvents
    /\ \E p \in InputPixels :
          /\ selectedPixel' = p
          /\ UpdatePreviewSync(p)
    /\ events' = events + 1
    /\ UNCHANGED <<shaderVars, now, startTime, animationId, nextId, drawn, resetAt>>

\* the reset button: selectRandomPixel
PreviewReset ==
    /\ events < MaxEvents
    /\ \E p \in InputPixels :
          /\ selectedPixel' = p
          /\ UpdatePreviewSync(p)
    /\ resetAt' = now
    /\ events' = events + 1
    /\ UNCHANGED <<shaderVars, now, startTime, animationId, nextId, drawn>>

\* the oldest read-back completes: the rest of updatePreview, animatePreview
\* and the first, direct call of animate
PreviewReadbackDone ==
    /\ pendingReads # <<>>
    /\ LET initialState == PreviewInitialState(selectedPixel)
           state == previewRk4(initialState)
           elapsed == now - now
       IN  /\ drawn' = state
           /\ simulationTime' = elapsed
           /\ rafQueue' = rafQueue \cup
                 {[id |-> nextId, at |-> now, startTime |-> now, state |-> state,
                   ticks |-> 1, px |-> selectedPixel, init |-> initialState,
                   elapsed |-> elapsed]}
    /\ animationId' = nextId
    /\ nextId' = nextId + 1
    /\ pendingReads' = Tail(pendingReads)
    /\ UNCHANGED <<shaderVars, now, startTime, selectedPixel, resetAt, events>>

\* a scheduled animate callback runs in a later frame (a loop is followed
\* for maxTicks frames)
PreviewFrameUpTo(maxTicks) ==
    /\ \E cb \in rafQueue :
          /\ now > cb.at
          /\ cb.ticks < maxTicks
          /\ LET state == previewRk4(cb.state)
                 elapsed == now - cb.startTime
             IN  /\ drawn' = state
                 /\ simulationTime' = elapsed
                 /\ rafQueue' = (rafQueue \ {cb}) \cup
                       {[cb EXCEPT !.id = nextId, !.at = now, !.state = state,
                                   !.ticks = cb.ticks + 1, !.elapsed = elapsed]}
    /\ animationId' = nextId
    /\ nextId' = nextId + 1
    /\ UNCHANGED <<shaderVars, now, startTime, selectedPixel, pendingReads,
                   resetAt, events>>

PreviewFrame == PreviewFrameUpTo(MaxTicks)

PreviewNext ==
    \/ ClockAdvance
    \/ PreviewClick
    \/ PreviewReset
    \/ PreviewReadbackDone
    \/ PreviewFrame

SpecPreview == PreviewInit /\ [][PreviewNext]_vars

\* one long run of the preview without further clicks: the loop started by
\* init() is followed on a slow display for PreviewRunTime ms of wall-clock
\* time
PreviewRunTime == 340

LongClockAdvance == ClockAdvanceBy({LongFrame}, PreviewRunTime)

LongPreviewFrame == PreviewFrameUpTo(PreviewRunTime \div DT)

PreviewRunNext ==
    \/ LongClockAdvance
    \/ PreviewReadbackDone
    \/ LongPreviewFrame

SpecPreviewRun == PreviewInit /\ [][PreviewRunNext]_vars

----------------------------------------------------------------------------
(* src/main.ts: the selection handlers on every event they can be given *)

\* the canvas on the page: getBoundingClientRect() has left = top = RectLeft
\* and width = height = RectSize, in CSS pixels
RectLeft == 1

RectSize == 2

\* clientX / clientY of the click events the handler is given: from the
\* viewport origin, which is what a click without a pointer position carries
\* (HTMLElement.click()), to the right / bottom edge of the rectangle
ClientCoords == 0 .. RectLeft + RectSize

\* the click handler: Math.floor((e.clientX - rect.left) * CANVAS_SIZE / rect.width)
ClickCoord(client, rectStart, rectSize) ==
    ((client - rectStart) * CANVAS_SIZE) \div rectSize

\* values of Math.random(), in [0, 1)
RandomInputs == {0, SCALE \div 2, SCALE - 1}

\* selectRandomPixel: Math.floor(Math.random() * CANVAS_SIZE)
RandomCoord(random) == (random * CANVAS_SIZE) \div SCALE

RandomPixels ==
    {<<RandomCoord(rx), RandomCoord(ry)>> : rx \in RandomInputs, ry \in RandomInputs}

\* the state when init() has returned, for every pixel selectRandomPixel
\* may have drawn
SelectInit ==
    /\ InvocationIdle
    /\ time = 0
    /\ outputTexture = runCompute(0)
    /\ now = 0
    /\ startTime = 0
    /\ selectedPixel \in RandomPixels
    /\ simulationTime = 0
    /\ animationId = NoId
    /\ rafQueue = {}
    /\ pendingReads = <<getPixelState(EmptyTexture, selectedPixel[1],
                                       selectedPixel[2])>>
    /\ nextId = 1
    /\ drawn = NoDraw
    /\ resetAt = 0 - 1
    /\ events = 0

\* the canvas click handler
CanvasClick ==
    /\ events < MaxEvents
    /\ \E clientX \in ClientCoords : \E clientY \in ClientCoords :
          /\ selectedPixel' = <<ClickCoord(clientX, RectLeft, RectSize),
                                ClickCoord(clientY, RectLeft, RectSize)>>
          /\ UpdatePreviewSync(selectedPixel')
    /\ events' = events + 1
    /\ UNCHANGED <<shaderVars, now, startTime, animationId, nextId, drawn, resetAt>>

\* the reset button: selectRandomPixel
RandomSelect ==
    /\ events < MaxEvents
    /\ \E p \in RandomPixels :
          /\ selectedPixel' = p
          /\ UpdatePreviewSync(p)
    /\ resetAt' = now
    /\ events' = events + 1
    /\ UNCHANGED <<shaderVars, now, startTime, animationId, nextId, drawn>>

SelectNext ==
    \/ CanvasClick
    \/ RandomSelect
    \/ PreviewReadbackDone

SpecSelect == SelectInit /\ [][SelectNext]_vars

----------------------------------------------------------------------------
(* src/shaders/quad.vert.wgsl, main.ts part: the animated full-grid driver *)

CenterPixel == <<CANVAS_SIZE \div 2, CANVAS_SIZE \div 2>>

\* variant: every cell takes one step from the state its texel of the
\* frame before decodes to
dispatchIncremental(tex, t) ==
    [c \in Cells |->
        Texel(NormalizeAngle(LoopBody(DecodePixel(TexelBytes(tex[c])).theta1,
                                      DecodePixel(TexelBytes(tex[c])).theta2,
                                      DecodePixel(TexelBytes(tex[c])).omega1,
                                      DecodePixel(TexelBytes(tex[c])).omega2,
                                      params.dt)[1]),
              NormalizeAngle(LoopBody(DecodePixel(TexelBytes(tex[c])).theta1,
                                      DecodePixel(TexelBytes(tex[c])).theta2,
                                      DecodePixel(TexelBytes(tex[c])).omega1,
                                      DecodePixel(TexelBytes(tex[c])).omega2,
                                      params.dt)[2]),
              DecodePixel(TexelBytes(tex[c])).omega1,
              DecodePixel(TexelBytes(tex[c])).omega2)]

\* runCompute on the texture tex of the frame before, the time uniform being
\* t: the pass binds the texture for writing only, every in-grid invocation
\* stores its texel, a texel nothing is stored to keeps its content
dispatchOn(tex, t) ==
    [c \in Cells |-> IF InGrid(c[1], c[2]) THEN ShaderTexel(c[1], c[2], t)
                                            ELSE tex[c]]

\* variant: the read-back is submitted ahead of the compute pass
FrameWorkReadFirst(elapsed, tex) ==
    /\ simulationTime' = elapsed
    /\ time' = elapsed
    /\ outputTexture' = tex
    /\ pendingReads' =
          <<getPixelState(outputTexture, selectedPixel[1], selectedPixel[2])
               @@ [frame |-> elapsed]>>

\* the frame work of animate up to its await: uniforms, compute, render,
\* and the start of the read-back of the selected pixel (frame is history:
\* the time uniform of the frame the read-back belongs to)
FrameWork(elapsed, tex) ==
    /\ simulationTime' = elapsed
    /\ time' = elapsed
    /\ outputTexture' = tex
    /\ pendingReads' =
          <<getPixelState(tex, selectedPixel[1], selectedPixel[2])
               @@ [frame |-> elapsed]>>

\* the state when init() has returned: startAnimation has taken startTime
\* and run the first animate up to its await
AnimInit ==
    /\ InvocationIdle
    /\ now = 0
    /\ startTime = now
    /\ selectedPixel = CenterPixel
    /\ simulationTime = 0
    /\ time = 0
    /\ outputTexture = runCompute(0)
    /\ pendingReads = <<getPixelState(outputTexture, selectedPixel[1],
                                       selectedPixel[2]) @@ [frame |-> 0]>>
    /\ animationId = NoId
    /\ rafQueue = {}
    /\ nextId = 1
    /\ drawn = NoDraw
    /\ resetAt = 0 - 1
    /\ events = 0

\* the read-back completes: draw the decoded pixel, schedule the next frame
AnimReadbackDone ==
    /\ pendingReads # <<>>
    /\ drawn' = DecodePixel(Head(pendingReads).bytes)
    /\ pendingReads' = Tail(pendingReads)
    /\ animationId' = nextId
    /\ rafQueue' = rafQueue \cup {[id |-> nextId, at |-> now,
                                   frame |-> Head(pendingReads).frame]}
    /\ nextId' = nextId + 1
    /\ UNCHANGED <<invocationVars, time, outputTexture, now, startTime,
                   selectedPixel, simulationTime, resetAt, events>>

\* the scheduled animate callback runs in a later frame
AnimFrame ==
    /\ \E cb \in rafQueue :
          /\ now > cb.at
          /\ rafQueue' = rafQueue \ {cb}
    /\ FrameWork(now - startTime, dispatchOn(outputTexture, now - startTime))
    /\ UNCHANGED <<invocationVars, now, startTime, selectedPixel, animationId,
                   nextId, drawn, resetAt, events>>

\* the canvas click handler
AnimClick ==
    /\ events < MaxEvents
    /\ \E p \in InputPixels : selectedPixel' = p
    /\ events' = events + 1
    /\ UNCHANGED <<shaderVars, now, startTime, simulationTime, animationId,
                   rafQueue, pendingReads, nextId, drawn, resetAt>>

\* the reset button: resetSimulation
AnimReset ==
    /\ events < MaxEvents
    /\ simulationTime' = 0
    /\ time' = 0
    /\ resetAt' = now
    /\ events' = events + 1
    /\ UNCHANGED <<invocationVars, outputTexture, now, startTime, selectedPixel,
                   animationId, rafQueue, pendingReads, nextId, drawn>>

AnimNext ==
    \/ ClockAdvance
    \/ AnimReadbackDone
    \/ AnimFrame
    \/ AnimClick
    \/ AnimReset

SpecAnim == AnimInit /\ [][AnimNext]_vars

----------------------------------------------------------------------------
(* One dispatch, invocation by invocation: the invocations of a dispatch run *)
(* in any order, each one main() from entry to return                        *)

\* the builtin global_invocation_id, per dimension
global_invocation_id(workgroup_id, local_invocation_id, workgroup_size) ==
    workgroup_id * workgroup_size + local_invocation_id

\* runCompute: dispatchWorkgroups(ceil(CANVAS_SIZE / 16), ceil(CANVAS_SIZE / 16))
\* of @workgroup_size(16, 16); an invocation is <<workgroup x, workgroup y,
\* local x, local y>>
BatchInvocations ==
    (0 .. DispatchCount - 1) \X (0 .. DispatchCount - 1)
        \X (0 .. WORKGROUP_SIZE - 1) \X (0 .. WORKGROUP_SIZE - 1)

BatchGid(inv) ==
    <<global_invocation_id(inv[1], inv[3], WORKGROUP_SIZE),
      global_invocation_id(inv[2], inv[4], WORKGROUP_SIZE)>>

\* the invocations outside the grid that are followed: one past the last
\* column, one past the last row (Spec follows each of the others on its own)
OutOfGridSamples == {<<CANVAS_SIZE, 0>>, <<CANVAS_SIZE - 1, CANVAS_SIZE>>}

\* the cells whose invocations are followed in every order: the first
\* MaxFollowed of the grid, which is all of them up to a 3 x 3 grid; the
\* invocations of the other cells have run when the dispatch is picked up
MaxFollowed == 9

FollowedCells == {c \in Cells : c[2] * CANVAS_SIZE + c[1] < MaxFollowed}

RanBefore == {inv \in BatchInvocations : BatchGid(inv) \in Cells \ FollowedCells}

FollowedBatch ==
    {inv \in BatchInvocations : BatchGid(inv) \in FollowedCells \cup OutOfGridSamples}

\* every invocation of the batch dispatch has run
BatchDone == ran = RanBefore \cup FollowedBatch

\* variant: every store of a column lands in its first row
StoreCoordsFirstRow(x, y) == <<x, 0>>

\* main: the coordinates of textureStore, vec2u(x, y)
StoreCoords(x, y) == <<x, y>>

\* the per-pendulum shader: @workgroup_size(256), one dimension
PendulumWorkgroupSize == 256

\* pendulums of the state buffers
MaxPend == 5

SimParams ==
    [dt |-> DT, texWidth |-> CANVAS_SIZE, texHeight |-> CANVAS_SIZE, g |-> G,
     l1 |-> L1, l2 |-> L2, m1 |-> M1, m2 |-> M2, nPend |-> MaxPend]

PendulumIndices == 0 .. MaxPend - 1

\* an invocation is <<workgroup, local>>; the ones up to two past nPend are
\* followed, the last of them being the last of its workgroup
PendulumInvocations ==
    (0 .. CeilDiv(MaxPend, PendulumWorkgroupSize) - 1) \X (0 .. PendulumWorkgroupSize - 1)

PendulumIdx(inv) == global_invocation_id(inv[1], inv[2], PendulumWorkgroupSize)

FollowedPendulums ==
    {inv \in PendulumInvocations :
        PendulumIdx(inv) <= MaxPend \/ inv[2] = PendulumWorkgroupSize - 1}

\* contents of the src buffer: pendulums released at rest, and moving ones
SrcInputs ==
    {[idx \in PendulumIndices |->
        <<(idx * PI) \div MaxPend - PI \div 2, PI \div 2 - (idx * PI) \div MaxPend,
          0, 0>>],
     [idx \in PendulumIndices |->
        <<(idx * PI) \div MaxPend, 0 - PI \div 4, SCALE, 0 - 2 * SCALE>>]}

ZeroStates == [idx \in PendulumIndices |-> <<0, 0, 0, 0>>]

\* the uniform time of the dispatch that is followed: the one of init(),
\* and one that takes an integration step
DispatchTimes == {0, DT}

DispatchInit ==
    /\ pipeline \in {"batch", "pendulums"}
    /\ params = IF pipeline = "batch" THEN UniformParams ELSE SimParams
    /\ src \in (IF pipeline = "batch" THEN {<<>>} ELSE SrcInputs)
    /\ dst = IF pipeline = "batch" THEN <<>> ELSE ZeroStates
    /\ ran = IF pipeline = "batch" THEN RanBefore ELSE {}
    /\ evaluated = <<>>
    /\ time \in DispatchTimes
    /\ outputTexture =
          [c \in Cells |-> IF pipeline = "batch" /\ c \notin FollowedCells
                           THEN ShaderTexel(c[1], c[2], time) ELSE NoTexel]
    /\ stores = [c \in Cells |-> IF outputTexture[c] = NoTexel THEN 0 ELSE 1]
    /\ gid = <<0, 0>>
    /\ pc = "start"
    /\ theta1 = 0 /\ theta2 = 0 /\ omega1 = 0 /\ omega2 = 0
    /\ i = 0 /\ totalSteps = 0
    /\ calls = 0
    /\ exitState = <<>>
    /\ JsIdle

\* compute.wgsl main() of the invocation with global id <<x, y>>
BatchMain(x, y) ==
    IF InGrid(x, y)
    THEN /\ outputTexture' =
               [outputTexture EXCEPT ![StoreCoords(x, y)] = ShaderTexel(x, y, time)]
         /\ stores' = [stores EXCEPT ![StoreCoords(x, y)] = @ + 1]
    ELSE UNCHANGED <<outputTexture, stores>>

BatchInvocation ==
    /\ pipeline = "batch"
    /\ \E inv \in FollowedBatch \ ran :
          /\ ran' = ran \cup {inv}
          /\ BatchMain(BatchGid(inv)[1], BatchGid(inv)[2])
    /\ UNCHANGED <<params, gid, time, pc, theta1, theta2, omega1, omega2, i,
                   totalSteps, calls, exitState, pipeline, src, dst, evaluated>>
    /\ UNCHANGED jsVars

\* the per-pendulum main() past its early return: dst[idx] = newS and the
\* textureStore of the color at the pixel px
PendulumStore(idx, newS, px) ==
    /\ dst' = [dst EXCEPT ![idx] = newS]
    /\ outputTexture' = [outputTexture EXCEPT ![px] = ColorTexel(newS)]
    /\ stores' = [stores EXCEPT ![px] = @ + 1]

PendulumMain(idx) ==
    IF idx >= params.nPend
    THEN UNCHANGED <<dst, outputTexture, stores>>
    ELSE PendulumStore(idx, NewState(src[idx], params.dt),
                       PixelOfIndex(idx, params.texWidth))

PendulumInvocation ==
    /\ pipeline = "pendulums"
    /\ \E inv \in FollowedPendulums \ ran :
          /\ ran' = ran \cup {inv}
          /\ PendulumMain(PendulumIdx(inv))
    /\ UNCHANGED <<params, gid, time, pc, theta1, theta2, omega1, omega2, i,
                   totalSteps, calls, exitState, pipeline, src, evaluated>>
    /\ UNCHANGED jsVars

\* updatePreviewFromGPU behind the finished dispatch, p being the selected
\* pixel when the read-back starts: getPixelState, then drawPendulum
DispatchReadback ==
    /\ pipeline = "batch"
    /\ BatchDone
    /\ pendingReads = <<>>
    /\ \E p \in Cells :
          /\ selectedPixel' = p
          /\ pendingReads' = <<getPixelState(outputTexture, p[1], p[2])>>
    /\ drawn' = DecodePixel(Head(pendingReads').bytes)
    /\ UNCHANGED <<shaderVars, now, startTime, simulationTime, animationId,
                   rafQueue, nextId, resetAt, events>>

DispatchNext ==
    \/ BatchInvocation
    \/ PendulumInvocation
    \/ DispatchReadback

SpecDispatch == DispatchInit /\ [][DispatchNext]_vars

----------------------------------------------------------------------------
(* Encoding and decoding: the tail of main() in compute.wgsl on every state *)
(* of the normalization range, then getPixelState on the stored texel       *)

\* the states tried: both angles sweep [-PI, PI] in opposite directions, one
\* unit at a time, and both velocities sweep [-10, 10]
CodecInputs == 0 .. 2 * PI

\* the invocation for cell (0, 0) has left its loop with a state of the range
CodecInit ==
    /\ DispatchIdle
    /\ params = UniformParams
    /\ gid = <<0, 0>>
    /\ time = 0
    /\ pc = "loop"
    /\ \E k \in CodecInputs :
          /\ theta1 = k - PI
          /\ theta2 = PI - k
          /\ omega1 = (2 * OMEGA_RANGE * k) \div (2 * PI) - OMEGA_RANGE
          /\ omega2 = OMEGA_RANGE - (2 * OMEGA_RANGE * k) \div (2 * PI)
    /\ i = 0 /\ totalSteps = 0
    /\ calls = 0
    /\ exitState = <<>>
    /\ outputTexture = EmptyTexture
    /\ JsIdle

\* getPixelState on the cell the invocation has written
CodecReadback ==
    /\ pc = "done"
    /\ drawn = NoDraw
    /\ drawn' = DecodePixel(outputTexture[gid])
    /\ UNCHANGED <<shaderVars, now, startTime, selectedPixel, simulationTime,
                   animationId, rafQueue, pendingReads, nextId, resetAt, events>>

CodecNext == Finish \/ CodecReadback

SpecCodec == CodecInit /\ [][CodecNext]_vars

----------------------------------------------------------------------------
(* Claims about the batch evaluator (one shader invocation) *)

\* C1: the invocation applies the RK4 stepper exactly floor(time / dt) times:
\* never more while it runs, and exactly that many when it has stored its
\* texel, with the loop counter at the step count (the remainder of time / dt
\* adds no step).
C1_FloorSteps ==
    /\ calls * DT <= time
    /\ pc = "done" => /\ calls = time \div DT
                      /\ i = totalSteps
                      /\ i = calls

C1_Witness ==
    /\ pc = "done"
    /\ time % DT # 0
    /\ calls >= 2
    /\ calls * DT < time

\* C2 as stated: the invocation uses ceil(time / dt) RK4 steps.
C2_CeilSteps == pc = "done" => calls = CeilDiv(time, DT)

\* C2 amended: the trajectory is recomputed from the cell's initial condition
\* with floor(time / dt) steps, which is ceil(time / dt) when time is a whole
\* multiple of dt and one less otherwise.
C2_FromScratchFloor ==
    /\ (pc = "loop" /\ calls = 0) =>
          <<theta1, theta2, omega1, omega2>> = InitialState(gid[1], gid[2])
    /\ pc = "done" =>
          calls = CeilDiv(time, DT) - (IF time % DT = 0 THEN 0 ELSE 1)

C2_Witness ==
    /\ pc = "done"
    /\ time % DT # 0
    /\ calls >= 1
    /\ calls + 1 = CeilDiv(time, DT)

\* C7: every RK4 step of the invocation starts from exactly the angles the
\* previous step produced (no wrap in between), and the wrap is applied once,
\* when the loop is left after the last step.
C7_NoWrapDuringIntegration ==
    [][ /\ calls' = calls + 1 =>
              <<theta1', theta2', omega1', omega2'>>
                  = rk4Step(theta1, theta2, omega1, omega2, DT)
        /\ (pc = "loop" /\ pc' = "done") =>
              /\ calls' = calls
              /\ calls = time \div DT
              /\ theta1' = NormalizeAngle(theta1)
              /\ theta2' = NormalizeAngle(theta2)
              /\ omega1' = omega1 /\ omega2' = omega2
      ]_vars

\* mid-integration, an angle outside [-PI, PI) is about to be stepped again
C7_Witness ==
    /\ pc = "loop"
    /\ calls > 0
    /\ i < totalSteps
    /\ (theta1 < 0 - PI \/ theta1 >= PI \/ theta2 < 0 - PI \/ theta2 >= PI)

InHalfOpenUpper(theta) == 0 - PI < theta /\ theta <= PI

InHalfOpenLower(theta) == 0 - PI <= theta /\ theta < PI

SameAngle(a, b) == (a - b) % (2 * PI) = 0

\* C8 as stated: the normalized angle is the representative in (-PI, PI].
C8_RangeClosedAtPi ==
    pc = "done" =>
        /\ InHalfOpenUpper(theta1) /\ SameAngle(theta1, exitState[1])
        /\ InHalfOpenUpper(theta2) /\ SameAngle(theta2, exitState[2])

\* C8 amended: the normalized angle is the unique representative
\* theta + 2 PI k in [-PI, PI): -PI stays -PI and +PI becomes -PI.
C8_RangeClosedAtMinusPi ==
    pc = "done" =>
        /\ InHalfOpenLower(theta1) /\ SameAngle(theta1, exitState[1])
        /\ InHalfOpenLower(theta2) /\ SameAngle(theta2, exitState[2])
        /\ (exitState[1] = 0 - PI \/ exitState[1] = PI) => theta1 = 0 - PI
        /\ (exitState[2] = 0 - PI \/ exitState[2] = PI) => theta2 = 0 - PI

\* the wrap moved an angle that had left the range, next to one at -PI
C8_Witness ==
    /\ pc = "done"
    /\ exitState[1] < 0 - PI
    /\ theta1 = exitState[1] + 2 * PI
    /\ calls > 0

ClampedToNearestEnd(v, lo, hi, byte) ==
    /\ v < lo => byte = 0
    /\ v > hi => byte = 255

\* C10 as stated: every component outside its range is clamped to the
\* nearest end of the byte range.
C10_ClampEveryComponent ==
    pc = "done" =>
        /\ ClampedToNearestEnd(exitState[1], 0 - PI, PI, outputTexture[gid][1])
        /\ ClampedToNearestEnd(exitState[2], 0 - PI, PI, outputTexture[gid][2])
        /\ ClampedToNearestEnd(exitState[3], 0 - OMEGA_RANGE, OMEGA_RANGE,
                               outputTexture[gid][3])
        /\ ClampedToNearestEnd(exitState[4], 0 - OMEGA_RANGE, OMEGA_RANGE,
                               outputTexture[gid][4])

\* C10 amended: an angular velocity outside [-10, 10] is clamped to byte 0
\* or 255 and never wrapped; an angle is not clamped but wrapped into
\* [-PI, PI) before it is encoded, so the byte is that of the wrapped angle.
C10_ClampVelocitiesWrapAngles ==
    pc = "done" =>
        /\ ClampedToNearestEnd(exitState[3], 0 - OMEGA_RANGE, OMEGA_RANGE,
                               outputTexture[gid][3])
        /\ ClampedToNearestEnd(exitState[4], 0 - OMEGA_RANGE, OMEGA_RANGE,
                               outputTexture[gid][4])
        /\ \A k \in {1, 2} :
              \E w \in (0 - PI) .. (PI - 1) :
                  /\ SameAngle(w, exitState[k])
                  /\ outputTexture[gid][k] = Unorm8(NormTheta(w))

\* a velocity beyond the range was encoded
C10_Witness ==
    /\ pc = "done"
    /\ (exitState[4] > OMEGA_RANGE \/ exitState[4] < 0 - OMEGA_RANGE)
    /\ outputTexture[gid][4] \in {0, 255}

----------------------------------------------------------------------------
(* Claims about the CPU preview driver *)

AsVec4(state) == <<state.theta1, state.theta2, state.omega1, state.omega2>>

\* C3: a preview loop that has run N ticks holds the state the batch
\* evaluator's loop reaches for the same pixel with time = N * dt.
C3_TicksEqualBatch ==
    \A cb \in rafQueue :
        AsVec4(cb.state) = BatchState(cb.px[1], cb.px[2], cb.ticks * DT)

\* many ticks have moved a trajectory whose first angle has left [-PI, PI)
C3_Witness ==
    \E cb \in rafQueue :
        /\ cb.ticks >= 16
        /\ cb.state.theta1 < 0 - PI
        /\ cb.state.omega2 # 0

\* C4 as stated: after N ticks of a preview loop the elapsed time it reports
\* is N * dt.
C4_ElapsedIsTicksTimesDt ==
    \A cb \in rafQueue : cb.elapsed = cb.ticks * DT

\* C6 as stated: at most one preview loop is scheduled, and it advances the
\* trajectory of the pixel selected last.
C6_SinglePreviewLoop ==
    /\ Cardinality(rafQueue) <= 1
    /\ \A cb \in rafQueue : cb.px = selectedPixel

\* C9: every cell maps to angles in [-PI, PI) given by (2 c / size - 1) PI up
\* to rounding, with zero velocities; distinct cells map to distinct angle
\* pairs; cell (0, 0) maps to (-PI, -PI); and a preview loop starts from the
\* initial state the shader gives its pixel.
C9_InitialConditionMap ==
    /\ \A c \in Cells :
          LET s == InitialState(c[1], c[2])
          IN  /\ s[3] = 0 /\ s[4] = 0
              /\ \A k \in {1, 2} :
                    /\ 0 - PI <= s[k] /\ s[k] < PI
                    /\ s[k] * CANVAS_SIZE - (2 * c[k] - CANVAS_SIZE) * PI
                          \in (0 - 8 * CANVAS_SIZE) .. (8 * CANVAS_SIZE)
    /\ \A c, d \in Cells :
          c # d => <<InitialState(c[1], c[2])[1], InitialState(c[1], c[2])[2]>>
                   # <<InitialState(d[1], d[2])[1], InitialState(d[1], d[2])[2]>>
    /\ InitialState(0, 0) = <<0 - PI, 0 - PI, 0, 0>>
    /\ \A cb \in rafQueue : AsVec4(cb.init) = InitialState(cb.px[1], cb.px[2])

\* a preview loop has started for a pixel of the last row
C9_Witness ==
    \E cb \in rafQueue :
        /\ cb.px[2] = CANVAS_SIZE - 1
        /\ cb.init.theta2 < PI
        /\ cb.init.theta2 > 0

\* C17 as stated: the selected pixel is always inside the grid, and every
\* read-back that has been started reads its four bytes inside the buffer
C17_SelectedPixelInGrid ==
    /\ selectedPixel \in Cells
    /\ \A k \in 1 .. Len(pendingReads) :
          /\ pendingReads[k].pixelStart >= 0
          /\ pendingReads[k].pixelStart + 3 < bufferSize

----------------------------------------------------------------------------
(* Claims about the animated full-grid driver *)

\* C5 as stated: once reset has been pressed, the simulated time of every
\* later evaluation is counted from the reset.
C5_TimeCountedFromReset ==
    resetAt >= 0 =>
        /\ time <= now - resetAt
        /\ simulationTime <= now - resetAt

\* C16: whenever a frame has evaluated the grid, the grid is the function
\* runCompute of the time uniform of that frame alone (the dimensions, the
\* physical parameters and dt being the fixed uniform contents), whatever
\* grid the frames before left in the texture and whatever clicks and resets
\* came before
C16_PureFunctionOfTime ==
    [][(outputTexture' # outputTexture \/ (time' # time /\ time' > 0))
          => outputTexture' = runCompute(time')]_vars

\* after a click and a reset, a frame has evaluated the grid for a time of
\* at least one integration step over the grid of an earlier frame
C16_Witness ==
    /\ selectedPixel # CenterPixel
    /\ resetAt >= 0
    /\ pendingReads # <<>>
    /\ time >= DT
    /\ Head(pendingReads).frame = time
    /\ outputTexture = runCompute(time)
    /\ outputTexture # runCompute(0)

\* a frame starts: the scheduled callback runs up to its await
FrameStarts == pendingReads' # <<>> /\ pendingReads' # pendingReads

\* a frame ends: its read-back completes
FrameEnds == pendingReads # <<>> /\ pendingReads' = <<>>

----------------------------------------------------------------------------
(* Claims about encoding and decoding *)

\* decoded lies within one quantization step, 1/255 of a range of width
\* 2 * half, of value
WithinOneStep(value, decoded, half) ==
    /\ (decoded - value) * 255 <= 2 * half
    /\ (value - decoded) * 255 <= 2 * half

\* C11 as stated: every state with angles in [-PI, PI] and velocities in
\* [-10, 10] is decoded to within one quantization step of each component.
C11_RoundTripClosedRange ==
    drawn # NoDraw =>
        /\ WithinOneStep(exitState[1], drawn.theta1, PI)
        /\ WithinOneStep(exitState[2], drawn.theta2, PI)
        /\ WithinOneStep(exitState[3], drawn.omega1, OMEGA_RANGE)
        /\ WithinOneStep(exitState[4], drawn.omega2, OMEGA_RANGE)

\* C11: every velocity in [-10, 10] and every angle in [-PI, PI) is decoded
\* to within one quantization step; the angle +PI is decoded as -PI.
C11_RoundTripHalfOpen ==
    drawn # NoDraw =>
        /\ exitState[1] < PI => WithinOneStep(exitState[1], drawn.theta1, PI)
        /\ exitState[2] < PI => WithinOneStep(exitState[2], drawn.theta2, PI)
        /\ exitState[1] = PI => drawn.theta1 = 0 - PI
        /\ exitState[2] = PI => drawn.theta2 = 0 - PI
        /\ WithinOneStep(exitState[3], drawn.omega1, OMEGA_RANGE)
        /\ WithinOneStep(exitState[4], drawn.omega2, OMEGA_RANGE)

\* the state (-PI, PI, -10, 10), all four at an end of their range, has been
\* stored and read back
C11_Witness ==
    /\ drawn # NoDraw
    /\ exitState = <<0 - PI, PI, 0 - OMEGA_RANGE, OMEGA_RANGE>>
    /\ drawn.theta1 = 0 - PI
    /\ drawn.omega2 = OMEGA_RANGE

----------------------------------------------------------------------------
(* Claims about the configuration *)

\* C12 as stated: under a configuration with a non-positive mass, length or
\* dt, or a zero grid dimension, no RK4 step is run and no slot is written.
C12_InvalidConfigNeverEvaluated ==
    ~ValidConfig(params) => calls = 0 /\ outputTexture = EmptyTexture

----------------------------------------------------------------------------
(* Claims about the denominators *)

\* C13 as stated: implementations that meet a denominator at zero treat it
\* in the same way, all flooring it at eps or all dividing by it.
C13_SinglePolicy ==
    \A a, b \in DOMAIN evaluated :
        evaluated[a].nearZero /\ evaluated[b].nearZero
            => evaluated[a].floored = evaluated[b].floored

\* C20: for positive masses and lengths den1 >= m1 * l1 > 0 and den2 > 0 in
\* the batch and the CPU derivative, so neither divides by zero; the guarded
\* denominators are >= 2 * m1 * l, and the floor at eps is reached only when
\* 2 * m1 * l is below eps.
C20_DenominatorsPositive ==
    /\ ("batch" \in DOMAIN evaluated /\ params.m1 > 0) =>
          /\ evaluated["batch"].den[1] >= FixMul(params.m1, params.l1)
          /\ FixMul(params.m1, params.l1) > 0
          /\ evaluated["batch"].den[2] > 0
          /\ evaluated["batch"].value # NonFinite
    /\ "cpu" \in DOMAIN evaluated =>
          /\ evaluated["cpu"].den[1] >= FixMul(M1, L1)
          /\ FixMul(M1, L1) > 0
          /\ evaluated["cpu"].den[2] > 0
          /\ evaluated["cpu"].value # NonFinite
    /\ "pendulums" \in DOMAIN evaluated =>
          /\ evaluated["pendulums"].den[1] >= FixMul(params.l1, 2 * params.m1)
          /\ evaluated["pendulums"].den[2] >= FixMul(params.l2, 2 * params.m1)
          /\ evaluated["pendulums"].floored =>
                \/ BelowEps(FixMul(params.l1, 2 * params.m1))
                \/ BelowEps(FixMul(params.l2, 2 * params.m1))

\* all three implementations have been evaluated where cos(delta)^2 is
\* largest, theta1 = theta2, for positive masses: the batch denominator is
\* within 1 % of its bound m1 * l1
C20_Witness ==
    /\ DOMAIN evaluated = Implementations
    /\ params.m1 > 0
    /\ theta1 = theta2
    /\ evaluated["batch"].den[1]
          <= FixMul(params.m1, params.l1) + FixMul(params.m2, params.l1) \div 100
    /\ ~evaluated["pendulums"].floored

----------------------------------------------------------------------------
(* Claims about one dispatch *)

\* the invocation of cell c / of pendulum idx has run
BatchRan(c) == \E inv \in ran : BatchGid(inv) = c

PendulumRan(idx) == \E inv \in ran : PendulumIdx(inv) = idx

\* C14: at every point of every execution order of the invocations, the slot
\* of a cell holds what the cell's own invocation computes from its index (or
\* its own src slot) and the parameters if that invocation has run, and is
\* untouched otherwise; so the finished grid is the same in every order
C14_OrderIndependent ==
    /\ pipeline = "batch" =>
          /\ \A c \in Cells :
                outputTexture[c] = IF BatchRan(c) THEN ShaderTexel(c[1], c[2], time)
                                                  ELSE NoTexel
          /\ BatchDone => outputTexture = runCompute(time)
    /\ pipeline = "pendulums" =>
          /\ src \in SrcInputs
          /\ \A idx \in PendulumIndices :
                /\ dst[idx] = IF PendulumRan(idx) THEN NewState(src[idx], params.dt)
                                                  ELSE ZeroStates[idx]
                /\ outputTexture[PixelOfIndex(idx, params.texWidth)] =
                      IF PendulumRan(idx)
                      THEN ColorTexel(NewState(src[idx], params.dt))
                      ELSE NoTexel
          /\ \A c \in Cells :
                c[2] * params.texWidth + c[1] >= params.nPend =>
                      outputTexture[c] = NoTexel

\* the last pendulum and the last cell have run before the first ones, and
\* their slots hold their results
C14_Witness ==
    \/ /\ pipeline = "pendulums"
       /\ PendulumRan(MaxPend - 1) /\ ~PendulumRan(0)
       /\ dst[MaxPend - 1] = NewState(src[MaxPend - 1], params.dt)
       /\ dst[0] = ZeroStates[0]
    \/ /\ pipeline = "batch"
       /\ BatchRan(<<CANVAS_SIZE - 1, CANVAS_SIZE - 1>>) /\ ~BatchRan(<<0, 0>>)
       /\ outputTexture[<<CANVAS_SIZE - 1, CANVAS_SIZE - 1>>] # NoTexel

\* grid widths and heights for which the index map is checked
IndexSizes == 1 .. CANVAS_SIZE + 1

\* idx -> (idx % width, idx / width) and (x, y) -> y * width + x are inverse
IndexMapInverse ==
    \A width \in IndexSizes : \A height \in IndexSizes :
        /\ \A idx \in 0 .. width * height - 1 :
              /\ PixelOfIndex(idx, width) \in (0 .. width - 1) \X (0 .. height - 1)
              /\ PixelOfIndex(idx, width)[2] * width + PixelOfIndex(idx, width)[1] = idx
        /\ \A x \in 0 .. width - 1 : \A y \in 0 .. height - 1 :
              PixelOfIndex(y * width + x, width) = <<x, y>>

\* C15: the bytes the reader takes for pixel (x, y) start at byte
\* (y * width + x) * 4 and are the texel the invocation of cell (x, y) stored,
\* the state drawn is decoded from them, the per-pendulum shader stores the
\* color of pendulum idx at the pixel whose row-major index is idx, and the
\* index map is the inverse of (x, y) -> y * width + x
C15_RowMajor ==
    /\ IndexMapInverse
    /\ pendingReads # <<>> =>
          /\ Head(pendingReads).pixelStart =
                (Head(pendingReads).y * params.width + Head(pendingReads).x)
                   * bytesPerPixel
          /\ Head(pendingReads).bytes =
                ShaderTexel(Head(pendingReads).x, Head(pendingReads).y, time)
          /\ drawn = DecodePixel(ShaderTexel(selectedPixel[1], selectedPixel[2], time))
    /\ pipeline = "pendulums" =>
          \A idx \in PendulumIndices :
              PendulumRan(idx) =>
                  /\ PixelOfIndex(idx, params.texWidth)[2] * params.texWidth
                        + PixelOfIndex(idx, params.texWidth)[1] = idx
                  /\ outputTexture[PixelOfIndex(idx, params.texWidth)]
                        = ColorTexel(dst[idx])

\* a pixel off the diagonal has been read back and drawn
C15_Witness ==
    /\ pendingReads # <<>>
    /\ selectedPixel = <<0, CANVAS_SIZE - 1>>
    /\ Head(pendingReads).pixelStart = (CANVAS_SIZE - 1) * bytesPerRow
    /\ drawn = DecodePixel(outputTexture[selectedPixel])

\* grid sizes for which the cover of the dispatch is counted: the one of
\* the model and one that needs a second workgroup
DispatchSizes == {CANVAS_SIZE, WORKGROUP_SIZE + 1}

\* the invocations of dispatchWorkgroups(ceil(size / 16), ceil(size / 16))
\* whose global id is <<x, y>>
InvocationsOf(x, y, size) ==
    {inv \in (0 .. CeilDiv(size, WORKGROUP_SIZE) - 1)
                \X (0 .. CeilDiv(size, WORKGROUP_SIZE) - 1)
                \X (0 .. WORKGROUP_SIZE - 1) \X (0 .. WORKGROUP_SIZE - 1) :
        BatchGid(inv) = <<x, y>>}

EveryCellCovered ==
    \A size \in DispatchSizes :
        \A x \in 0 .. size - 1 : \A y \in 0 .. size - 1 :
            Cardinality(InvocationsOf(x, y, size)) = 1

\* the stores the invocations that have run account for at cell c
StoresDue(c) ==
    IF pipeline = "batch"
    THEN Cardinality({inv \in ran : BatchGid(inv) = c /\ InGrid(c[1], c[2])})
    ELSE Cardinality({inv \in ran :
            /\ PendulumIdx(inv) < params.nPend
            /\ PixelOfIndex(PendulumIdx(inv), params.texWidth) = c})

\* C18: every cell is the global id of exactly one invocation of the dispatch;
\* at every point of the dispatch the stores to a cell are the one of its own
\* invocation if that has run, so the invocations outside the grid (or with
\* idx >= nPend) have stored nothing; after the batch dispatch every cell has
\* been stored to exactly once
C18_EveryCellOnce ==
    /\ EveryCellCovered
    /\ \A c \in Cells : stores[c] = StoresDue(c) /\ stores[c] <= 1
    /\ (pipeline = "batch" /\ BatchDone) =>
          \A c \in Cells : stores[c] = 1 /\ outputTexture[c] # NoTexel
    /\ (pipeline = "pendulums" /\ ran = FollowedPendulums) =>
          /\ \A idx \in PendulumIndices :
                stores[PixelOfIndex(idx, params.texWidth)] = 1
          /\ \A idx \in DOMAIN dst : idx < params.nPend

\* both dispatches have finished, the invocations outside the grid and past
\* nPend included
C18_Witness ==
    \/ /\ pipeline = "batch"
       /\ BatchDone
       /\ \E inv \in ran : ~InGrid(BatchGid(inv)[1], BatchGid(inv)[2])
       /\ \A c \in Cells : stores[c] = 1
    \/ /\ pipeline = "pendulums"
       /\ ran = FollowedPendulums
       /\ \E inv \in ran : PendulumIdx(inv) >= params.nPend
       /\ stores[<<0, 0>>] = 1

====
